---- MODULE Spec2Model ----
(***************************************************************************)
(* Model of SynthSeg/training_denoiser.py.                                 *)
(*                                                                         *)
(* Spec    : training() stepped statement by statement, with the epochs of *)
(*           train_model as steps, a failure of a phase and a restart of   *)
(*           training with checkpoint = the last file the failed phase     *)
(*           wrote.  It carries the control flow and the checkpoint        *)
(*           hand-off between the WL2 and the Dice phase.                  *)
(* SpecAug : build_augmentation_model() as training() calls it (shape      *)
(*           resolution, the stages of the graph) and one evaluation of    *)
(*           the graph on a pair of label volumes.                         *)
(***************************************************************************)
EXTENDS Integers, Sequences, FiniteSets, TLC

VARIABLES
    \* ---- training(): Spec
    args,        \* the arguments of this invocation: wl2_epochs, dice_epochs, checkpoint
    pc,          \* position of training()
    checkpoint,  \* the local variable `checkpoint` of training()
    log,         \* what this invocation has done so far, in order
    files,       \* model_dir and the caller's files: file name -> saved weights
    weights,     \* the weights of the l2l layers in memory
    epoch,       \* the epoch counter of the running fit_generator
    seed,        \* per phase: the path_checkpoint handed to train_model
    start,       \* per phase: the weights the first epoch of the phase starts from
    run,         \* number of invocations of training() so far
    lastWritten, \* per phase: the last checkpoint file this invocation wrote
    failed,      \* the failure this invocation restarts from: the phase that
                 \* failed, the last file it wrote and the weights saved in it
    \* ---- build_augmentation_model(): SpecAug
    cfg,         \* the arguments of the build
    apc,         \* position: "build", "run", "done"
    graph,       \* the two graphs built (they differ in the erosion arguments only)
    unet_input_shape, \* what training() hands to the UNet
    vols,        \* the pair of label volumes fed to the graph
    outs         \* the outputs of the two graphs

trainVars == <<args, pc, checkpoint, log, files, weights, epoch, seed, start,
               run, lastWritten, failed>>
augVars == <<cfg, apc, graph, unet_input_shape, vols, outs>>
vars == <<trainVars, augVars>>

\* ------------------------------------------------------------------ bounds
MaxEpochs == 2      \* wl2_epochs and dice_epochs range over -1 .. MaxEpochs
MaxRuns == 2        \* invocations of training(): the first and MaxRuns - 1 restarts

\* ------------------------------------------------------------------ files
\* A checkpoint path: the metric prefix of its base name and the digits that
\* follow ('wl2_001.h5' is [metric |-> "wl2", digits |-> <<0, 0, 1>>]).
NoneCk == [metric |-> "None", digits |-> <<>>]
UnsetCk == [metric |-> "unset", digits |-> <<>>]
Pretrained == [metric |-> "pretrained", digits |-> <<>>]
Unset == <<"unset">>

RECURSIVE Digits(_)
Digits(n) == IF n < 10 THEN <<n>> ELSE Digits(n \div 10) \o <<n % 10>>

RECURSIVE ZeroPad(_, _)
ZeroPad(ds, width) == IF Len(ds) >= width THEN ds ELSE ZeroPad(<<0>> \o ds, width)

\* '%03d' % n, for n >= 0
Fmt03d(n) == ZeroPad(Digits(n), 3)

RECURSIVE ParseInt(_)
ParseInt(ds) == IF ds = <<>> THEN 0
                ELSE 10 * ParseInt(SubSeq(ds, 1, Len(ds) - 1)) + ds[Len(ds)]

CkptFile(metric, n) == [metric |-> metric, digits |-> Fmt03d(n)]

Event(ev, metric, n, ck) == [ev |-> ev, metric |-> metric, n |-> n, ck |-> ck]

\* ------------------------------------------------------------------ training()
\* line 142: assert (wl2_epochs > 0) | (dice_epochs > 0)
EpochsValidOffByOne(wl2_epochs, dice_epochs) == (wl2_epochs >= 0) \/ (dice_epochs >= 0)
EpochsValid(wl2_epochs, dice_epochs) == (wl2_epochs > 0) \/ (dice_epochs > 0)

\* line 192: if wl2_epochs > 0
RunWl2Always(wl2_epochs) == wl2_epochs >= 0
RunWl2(wl2_epochs) == wl2_epochs > 0

\* line 196: checkpoint = os.path.join(model_dir, 'wl2_%03d.h5' % wl2_epochs)
Wl2CheckpointKeepCaller(wl2_epochs, ck) ==
    IF ck = NoneCk THEN CkptFile("wl2", wl2_epochs) ELSE ck
Wl2CheckpointFirstEpoch(wl2_epochs, ck) == CkptFile("wl2", 1)
Wl2Checkpoint(wl2_epochs, ck) == CkptFile("wl2", wl2_epochs)

\* line 195: the caller's checkpoint is the path_checkpoint of the WL2 phase
Wl2PathCheckpointDropped(ck) == NoneCk
Wl2PathCheckpoint(ck) == ck

\* line 200: the local `checkpoint` is the path_checkpoint of the Dice phase
DicePathCheckpoint(ck) == ck

\* train_model: init_epoch, read from the name of a checkpoint of the same metric
InitEpoch(metric_type, path_checkpoint) ==
    IF path_checkpoint # NoneCk /\ path_checkpoint.metric = metric_type
    THEN ParseInt(path_checkpoint.digits) ELSE 0

\* train_model up to fit_generator: the checkpoint is loaded (load_model or
\* load_weights) and the epoch counter set.  A missing file makes the load raise.
TrainModelStart(metric_type, n_epochs, path_checkpoint, next) ==
    /\ seed' = [seed EXCEPT ![metric_type] = path_checkpoint]
    /\ IF path_checkpoint # NoneCk /\ path_checkpoint \notin DOMAIN files
       THEN /\ pc' = "error"
            /\ UNCHANGED <<weights, epoch, start>>
       ELSE /\ pc' = next
            /\ weights' = IF path_checkpoint = NoneCk THEN weights
                          ELSE files[path_checkpoint]
            /\ epoch' = InitEpoch(metric_type, path_checkpoint)
            /\ start' = [start EXCEPT ![metric_type] = weights']

CheckEpochs ==
    /\ pc = "check"
    /\ IF EpochsValid(args.wl2_epochs, args.dice_epochs)
       THEN pc' = "labels"
       ELSE pc' = "error"
    /\ UNCHANGED <<args, checkpoint, log, files, weights, epoch, seed, start,
                   run, lastWritten, failed>>

Step(from, to, ev) ==
    /\ pc = from
    /\ pc' = to
    /\ log' = Append(log, Event(ev, "", 0, NoneCk))
    /\ UNCHANGED <<args, checkpoint, files, weights, epoch, seed, start,
                   run, lastWritten, failed>>

\* lines 146-151
GetListLabels == Step("labels", "volinfo", "get_list_labels")
\* line 154: the first input label map is read
GetVolumeInfo == Step("volinfo", "augment", "read_label_map")
\* lines 155-167
BuildAugmentation == Step("augment", "unet", "build_augmentation_model")
\* lines 170-181
BuildUnet == Step("unet", "inputs", "unet")
\* lines 184-189
BuildInputs == Step("inputs", "wl2", "build_training_generator")

\* lines 192-195
Wl2Phase ==
    /\ pc = "wl2"
    /\ IF RunWl2(args.wl2_epochs)
       THEN /\ log' = log \o <<Event("metrics_model", "wl2", 0, NoneCk),
                               Event("train_model", "wl2", args.wl2_epochs,
                                     Wl2PathCheckpoint(checkpoint))>>
            /\ TrainModelStart("wl2", args.wl2_epochs,
                               Wl2PathCheckpoint(checkpoint), "wl2_fit")
       ELSE /\ pc' = "dice"
            /\ UNCHANGED <<log, weights, epoch, seed, start>>
    /\ UNCHANGED <<args, checkpoint, files, run, lastWritten, failed>>

Metric == IF pc = "wl2_fit" THEN "wl2" ELSE "dice"
NEpochs == IF pc = "wl2_fit" THEN args.wl2_epochs ELSE args.dice_epochs

\* one epoch of fit_generator and its ModelCheckpoint callback
FitEpoch ==
    /\ pc \in {"wl2_fit", "dice_fit"}
    /\ epoch < NEpochs
    /\ epoch' = epoch + 1
    /\ weights' = Append(weights, Metric)
    /\ files' = [f \in DOMAIN files \cup {CkptFile(Metric, epoch')} |->
                    IF f = CkptFile(Metric, epoch') THEN weights' ELSE files[f]]
    /\ log' = Append(log, Event("checkpoint", Metric, epoch', CkptFile(Metric, epoch')))
    /\ lastWritten' = [lastWritten EXCEPT ![Metric] = CkptFile(Metric, epoch')]
    /\ UNCHANGED <<args, pc, checkpoint, seed, start, run, failed>>

\* line 196, after train_model returned
Wl2Done ==
    /\ pc = "wl2_fit"
    /\ epoch >= args.wl2_epochs
    /\ checkpoint' = Wl2Checkpoint(args.wl2_epochs, checkpoint)
    /\ pc' = "dice"
    /\ UNCHANGED <<args, log, files, weights, epoch, seed, start, run,
                   lastWritten, failed>>

\* lines 199-200
DicePhase ==
    /\ pc = "dice"
    /\ log' = log \o <<Event("metrics_model", "dice", 0, NoneCk),
                       Event("train_model", "dice", args.dice_epochs,
                             DicePathCheckpoint(checkpoint))>>
    /\ TrainModelStart("dice", args.dice_epochs,
                       DicePathCheckpoint(checkpoint), "dice_fit")
    /\ UNCHANGED <<args, checkpoint, files, run, lastWritten, failed>>

DiceDone ==
    /\ pc = "dice_fit"
    /\ epoch >= args.dice_epochs
    /\ pc' = "done"
    /\ UNCHANGED <<args, checkpoint, log, files, weights, epoch, seed, start,
                   run, lastWritten, failed>>

\* a failure inside fit_generator aborts the run
Fail ==
    /\ pc \in {"wl2_fit", "dice_fit"}
    /\ pc' = IF pc = "wl2_fit" THEN "wl2_failed" ELSE "dice_failed"
    /\ UNCHANGED <<args, checkpoint, log, files, weights, epoch, seed, start,
                   run, lastWritten, failed>>

FailedPhase == IF pc = "wl2_failed" THEN "wl2" ELSE "dice"

\* training() is called again with the same arguments and checkpoint = the
\* last file the failed phase wrote
Restart ==
    /\ pc \in {"wl2_failed", "dice_failed"}
    /\ run < MaxRuns
    /\ lastWritten[FailedPhase] # NoneCk
    /\ failed' = [phase |-> FailedPhase, file |-> lastWritten[FailedPhase],
                  saved |-> files[lastWritten[FailedPhase]]]
    /\ args' = [args EXCEPT !.checkpoint = failed'.file]
    /\ checkpoint' = failed'.file
    /\ pc' = "check"
    /\ log' = <<>>
    /\ weights' = <<>>
    /\ epoch' = 0
    /\ seed' = [wl2 |-> UnsetCk, dice |-> UnsetCk]
    /\ start' = [wl2 |-> Unset, dice |-> Unset]
    /\ run' = run + 1
    /\ lastWritten' = [wl2 |-> NoneCk, dice |-> NoneCk]
    /\ UNCHANGED files

InitTrain ==
    /\ args \in [wl2_epochs : -1 .. MaxEpochs,
                 dice_epochs : -1 .. MaxEpochs,
                 checkpoint : {NoneCk, Pretrained}]
    /\ pc = "check"
    /\ checkpoint = args.checkpoint
    /\ log = <<>>
    /\ files = (Pretrained :> <<"pretrained">>)
    /\ weights = <<>>
    /\ epoch = 0
    /\ seed = [wl2 |-> UnsetCk, dice |-> UnsetCk]
    /\ start = [wl2 |-> Unset, dice |-> Unset]
    /\ run = 1
    /\ lastWritten = [wl2 |-> NoneCk, dice |-> NoneCk]
    /\ failed = [phase |-> "none", file |-> NoneCk, saved |-> Unset]

InitAugIdle ==
    /\ cfg = <<>>
    /\ apc = "idle"
    /\ graph = <<>>
    /\ unet_input_shape = <<>>
    /\ vols = <<>>
    /\ outs = <<>>

Init == InitTrain /\ InitAugIdle

Next ==
    \/ (CheckEpochs /\ UNCHANGED augVars)
    \/ (GetListLabels /\ UNCHANGED augVars)
    \/ (GetVolumeInfo /\ UNCHANGED augVars)
    \/ (BuildAugmentation /\ UNCHANGED augVars)
    \/ (BuildUnet /\ UNCHANGED augVars)
    \/ (BuildInputs /\ UNCHANGED augVars)
    \/ (Wl2Phase /\ UNCHANGED augVars)
    \/ (FitEpoch /\ UNCHANGED augVars)
    \/ (Wl2Done /\ UNCHANGED augVars)
    \/ (DicePhase /\ UNCHANGED augVars)
    \/ (DiceDone /\ UNCHANGED augVars)
    \/ (Fail /\ UNCHANGED augVars)
    \/ (Restart /\ UNCHANGED augVars)

Spec == Init /\ [][Next]_vars
\* ------------------------------------------------------------------ bounds, SpecAug
MaxAxis == 3        \* every axis of labels_shape ranges over 1 .. MaxAxis
MaxLevels == 1      \* n_levels ranges over 0 .. MaxLevels

Dims == {1, 2}      \* n_dims of the label maps
Shifts == {-1, 0, 1} \* the displacements the deformation draws, in voxels
\* input_segmentation_labels: sorted or not, with and without repeated values
LabelLists == {<<0, 1>>, <<0, 2, 5>>, <<4, 0, 2>>, <<0, 3, 3>>}
\* (prob_erosion_dilation in percent, min_erosion_dilation, max_erosion_dilation)
EroOff == [prob |-> 0, min |-> 1, max |-> 1]
EroAlways == [prob |-> 100, min |-> 1, max |-> 1]
EroHalf == [prob |-> 50, min |-> 1, max |-> 2]
\* pairs of erosion arguments of two builds that differ in them
EroPairs == {<<EroOff, EroAlways>>, <<EroOff, EroHalf>>, <<EroAlways, EroHalf>>}

RECURSIVE Pow2(_)
Pow2(n) == IF n = 0 THEN 1 ELSE 2 * Pow2(n - 1)
Min(a, b) == IF a <= b THEN a ELSE b
SetMin(S) == CHOOSE x \in S : \A y \in S : x <= y
SetMax(S) == CHOOSE x \in S : \A y \in S : x >= y

\* ------------------------------------------------------------------ helpers
\* utils.reformat_to_list(x, length=n): a single value is repeated n times
ReformatToList(x, length) ==
    IF Len(x) = 1 THEN [i \in 1 .. length |-> x[1]] ELSE x

\* utils.find_closest_number_divisible_by_m(n, m, answer_type='lower')
FindClosestNumberDivisibleByM(n, m) ==
    IF n % m = 0 THEN n ELSE (n \div m) * m

\* labels_to_image_model.get_shapes with atlas_res = target_res (no resampling):
\* the cropping shape.  output_shape = <<>> stands for None, "where no cropping
\* is performed" (docstring of training(), lines 90-92): the cropping shape is
\* then the native shape.  A requested shape is capped by the native shape and
\* brought down to a multiple of output_div_by_n.
GetShapes(labels_shape, output_shape, output_div_by_n) ==
    LET n_dims == Len(labels_shape)
    IN  IF output_shape # <<>>
        THEN LET os == ReformatToList(output_shape, n_dims)
             IN  [i \in 1 .. n_dims |->
                    FindClosestNumberDivisibleByM(Min(labels_shape[i], os[i]),
                                                  output_div_by_n)]
        ELSE labels_shape

\* np.unique: the sorted distinct values
RECURSIVE SortedSeq(_)
SortedSeq(S) == IF S = {} THEN <<>>
                ELSE <<SetMin(S)>> \o SortedSeq(S \ {SetMin(S)})
NpUnique(list) == SortedSeq({list[i] : i \in 1 .. Len(list)})

\* a label volume: its spatial shape and a value per voxel
Coords(shape) ==
    {c \in [1 .. Len(shape) -> 1 .. SetMax({shape[i] : i \in 1 .. Len(shape)} \cup {1})] :
        \A i \in 1 .. Len(shape) : c[i] <= shape[i]}
Tensor(shape, val) == [shape |-> shape, val |-> val]
CoordSum(c) == IF Len(c) = 1 THEN c[1] ELSE c[1] + 2 * c[2]

\* layers.RandomSpatialDeformation(inter_method='nearest'): one displacement for
\* both volumes, nearest-neighbour resampling, 0 outside the volume; the
\* identity when every bound is False and nonlin_std is 0
Deform(t, deform_on, shift) ==
    IF ~deform_on THEN t
    ELSE LET src(c) == [c EXCEPT ![1] = c[1] + shift]
         IN  Tensor(t.shape, [c \in Coords(t.shape) |->
                                IF src(c) \in DOMAIN t.val THEN t.val[src(c)] ELSE 0])

\* layers.RandomCrop(crop_shape): one offset for both volumes
Crop(t, crop_shape, offset) ==
    Tensor(crop_shape, [c \in Coords(crop_shape) |->
                          t.val[[i \in 1 .. Len(c) |-> c[i] + offset[i]]]])

\* layers.RandomDilationErosion(min, max, prob): with probability prob, a
\* dilation or an erosion of a radius drawn in min .. max
Window(t, c, r) ==
    {d \in DOMAIN t.val : \A i \in 1 .. Len(c) : d[i] - c[i] \in -r .. r}
DilationErosion(t, draw) ==
    IF ~draw.apply THEN t
    ELSE Tensor(t.shape, [c \in Coords(t.shape) |->
            IF draw.op = "dilate"
            THEN SetMax({t.val[d] : d \in Window(t, c, draw.radius)})
            ELSE SetMin({t.val[d] : d \in Window(t, c, draw.radius)})])

\* layers.ConvertLabels(source_values): source_values[i] becomes i, counted from
\* 0; a value that is no source value becomes 0
ConvertLabel(source_values, v) ==
    IF \E i \in 1 .. Len(source_values) : source_values[i] = v
    THEN (CHOOSE i \in 1 .. Len(source_values) : source_values[i] = v) - 1
    ELSE 0
ConvertLabels(t, source_values) ==
    Tensor(t.shape, [c \in Coords(t.shape) |-> ConvertLabel(source_values, t.val[c])])

\* tf.one_hot(x, depth): a vector of depth entries, 1 at index x when
\* 0 <= x < depth, 0 elsewhere
OneHotVector(x, depth) == [k \in 0 .. depth - 1 |-> IF k = x THEN 1 ELSE 0]
OneHot(t, depth) == Tensor(t.shape, [c \in Coords(t.shape) |-> OneHotVector(t.val[c], depth)])

\* ------------------------------------------------------------------ build_augmentation_model()
\* line 146: utils.get_list_labels(label_list=...): the list as an int32 array,
\* values and order kept
InputLabelList(input_segmentation_labels) ==
    [i \in 1 .. Len(input_segmentation_labels) |-> input_segmentation_labels[i]]

\* line 158: output_div_by_n=2 ** n_levels
OutputDivByN(n_levels) == Pow2(n_levels)

\* line 220: n_labels = len(segmentation_labels)
NLabels(segmentation_labels) == Len(segmentation_labels)

\* line 239: if crop_shape != labels_shape
NeedCropAlways(crop_shape, labels_shape) == TRUE
NeedCrop(crop_shape, labels_shape) == crop_shape # labels_shape

\* line 240: noisy_labels, target = layers.RandomCrop(crop_shape)([noisy_labels, target])
CroppedBranchesNoisyOnly == {"noisy"}
CroppedBranches == {"noisy", "target"}

\* lines 243-246: only noisy_labels goes through RandomDilationErosion
ErodedBranchesBoth(prob_erosion_dilation) ==
    IF prob_erosion_dilation > 0 THEN {"noisy", "target"} ELSE {}
ErodedBranches(prob_erosion_dilation) ==
    IF prob_erosion_dilation > 0 THEN {"noisy"} ELSE {}

\* the layers a branch goes through, in order (lines 230-252)
BranchStages(branch, crop_shape, labels_shape, prob_erosion_dilation) ==
    <<"deform">>
    \o (IF NeedCrop(crop_shape, labels_shape) /\ branch \in CroppedBranches
        THEN <<"crop">> ELSE <<>>)
    \o (IF branch \in ErodedBranches(prob_erosion_dilation)
        THEN <<"erode">> ELSE <<>>)
    \o (IF branch = "noisy" THEN <<"convert", "one_hot">> ELSE <<"cast">>)

\* the static spatial shape of the tensor a sequence of layers produces
RECURSIVE StaticShape(_, _, _)
StaticShape(stages, in_shape, crop_shape) ==
    IF stages = <<>> THEN in_shape
    ELSE StaticShape(Tail(stages),
                     IF Head(stages) = "crop" THEN crop_shape ELSE in_shape,
                     crop_shape)

BuildAugmentationModel(labels_shape, segmentation_labels, crop_shape_arg, output_div_by_n, deform_on, ero) ==
    LET crop_shape == GetShapes(labels_shape, crop_shape_arg, output_div_by_n)
        noisy == BranchStages("noisy", crop_shape, labels_shape, ero.prob)
        target == BranchStages("target", crop_shape, labels_shape, ero.prob)
    IN  [labels_shape |-> labels_shape,
         crop_shape |-> crop_shape,
         n_labels |-> NLabels(segmentation_labels),
         source_values |-> NpUnique(segmentation_labels),
         deform_on |-> deform_on,
         ero |-> ero,
         stages |-> [noisy |-> noisy, target |-> target],
         \* output[0]: spatial shape + [n_labels]; output[1]: spatial shape
         output_shape |->
            [noisy |-> StaticShape(noisy, labels_shape, crop_shape)
                        \o <<NLabels(segmentation_labels)>>,
             target |-> StaticShape(target, labels_shape, crop_shape)]]

\* one layer of a built graph applied to a tensor
ApplyStage(stage, t, g, draw) ==
    CASE stage = "deform" -> Deform(t, g.deform_on, draw.shift)
      [] stage = "crop" -> Crop(t, g.crop_shape, draw.offset)
      [] stage = "erode" -> DilationErosion(t, draw.ero)
      [] stage = "convert" -> ConvertLabels(t, g.source_values)
      [] stage = "one_hot" -> OneHot(t, g.n_labels)
      [] stage = "cast" -> t

\* the tensors a branch produces, layer after layer
RECURSIVE RunBranch(_, _, _, _)
RunBranch(stages, t, g, draw) ==
    IF stages = <<>> THEN <<>>
    ELSE LET u == ApplyStage(Head(stages), t, g, draw)
         IN  <<u>> \o RunBranch(Tail(stages), u, g, draw)

RunGraph(g, v, draw) ==
    [noisy |-> RunBranch(g.stages.noisy, v.noisy, g, draw),
     target |-> RunBranch(g.stages.target, v.target, g, draw)]

\* what the random layers may draw for a built graph
ShiftDraws(g) == IF g.deform_on THEN Shifts ELSE {0}
OffsetDraws(g) ==
    {o \in [1 .. Len(g.labels_shape) -> 0 .. MaxAxis] :
        \A i \in 1 .. Len(g.labels_shape) :
            IF "crop" \in {g.stages.noisy[k] : k \in 1 .. Len(g.stages.noisy)}
            THEN o[i] <= g.labels_shape[i] - g.crop_shape[i]
            ELSE o[i] = 0}
EroDraws(ero) ==
    {[apply |-> FALSE, op |-> "dilate", radius |-> ero.min] : x \in {y \in {1} : ero.prob < 100}}
    \cup {[apply |-> TRUE, op |-> op, radius |-> r] :
            op \in {y \in {"dilate", "erode"} : ero.prob > 0}, r \in ero.min .. ero.max}

\* lines 154-167 of training(): both graphs are built from the same arguments,
\* but for the erosion ones
Build ==
    /\ apc = "build"
    /\ graph' = [b \in {"A", "B"} |->
                    BuildAugmentationModel(cfg.labels_shape,
                                           InputLabelList(cfg.segmentation_labels),
                                           cfg.output_shape, OutputDivByN(cfg.n_levels),
                                           cfg.deform_on,
                                           IF b = "A" THEN cfg.ero[1] ELSE cfg.ero[2])]
    \* line 167: unet_input_shape = augmentation_model.output[0].get_shape().as_list()[1:]
    /\ unet_input_shape' = graph'["A"].output_shape.noisy
    /\ apc' = "run"
    /\ UNCHANGED <<cfg, vols, outs>>

\* one batch through both graphs: the deformation and the crop draw the same
\* values in both, the erosion layers draw on their own
RunBatch ==
    /\ apc = "run"
    /\ \E shift \in ShiftDraws(graph["A"]), offset \in OffsetDraws(graph["A"]),
          eroA \in EroDraws(graph["A"].ero), eroB \in EroDraws(graph["B"].ero) :
          outs' = [A |-> RunGraph(graph["A"], vols,
                                  [shift |-> shift, offset |-> offset, ero |-> eroA]),
                   B |-> RunGraph(graph["B"], vols,
                                  [shift |-> shift, offset |-> offset, ero |-> eroB])]
    /\ apc' = "done"
    /\ UNCHANGED <<cfg, graph, unet_input_shape, vols>>

InitAug ==
    /\ cfg \in {[labels_shape |-> ls, output_shape |-> os, n_levels |-> nl,
                 segmentation_labels |-> sl, deform_on |-> d, ero |-> e] :
                    ls \in UNION {[1 .. nd -> 1 .. MaxAxis] : nd \in Dims},
                    os \in {<<>>} \cup {<<n>> : n \in 1 .. MaxAxis},
                    nl \in 0 .. MaxLevels,
                    sl \in LabelLists,
                    d \in BOOLEAN,
                    e \in EroPairs}
    /\ apc = "build"
    /\ graph = <<>>
    /\ unet_input_shape = <<>>
    \* a pair of label maps of the native shape, holding values of the label list
    /\ vols = [noisy |-> Tensor(cfg.labels_shape, [c \in Coords(cfg.labels_shape) |->
                  cfg.segmentation_labels[(CoordSum(c) % Len(cfg.segmentation_labels)) + 1]]),
               target |-> Tensor(cfg.labels_shape, [c \in Coords(cfg.labels_shape) |->
                  cfg.segmentation_labels[((CoordSum(c) + 1) % Len(cfg.segmentation_labels)) + 1]])]
    /\ outs = <<>>

InitTrainIdle ==
    /\ args = [wl2_epochs |-> 0, dice_epochs |-> 0, checkpoint |-> NoneCk]
    /\ pc = "idle"
    /\ checkpoint = NoneCk
    /\ log = <<>>
    /\ files = (Pretrained :> <<"pretrained">>)
    /\ weights = <<>>
    /\ epoch = 0
    /\ seed = [wl2 |-> UnsetCk, dice |-> UnsetCk]
    /\ start = [wl2 |-> Unset, dice |-> Unset]
    /\ run = 1
    /\ lastWritten = [wl2 |-> NoneCk, dice |-> NoneCk]
    /\ failed = [phase |-> "none", file |-> NoneCk, saved |-> Unset]

NextAug ==
    \/ (Build /\ UNCHANGED trainVars)
    \/ (RunBatch /\ UNCHANGED trainVars)

AugInit == InitAug /\ InitTrainIdle

SpecAug == AugInit /\ [][NextAug]_vars

\* ------------------------------------------------------------------ claims, Spec
W == args.wl2_epochs
D == args.dice_epochs

LogHas(ev, metric) == \E i \in 1 .. Len(log) : log[i].ev = ev /\ log[i].metric = metric
LogHasMetric(metric) == \E i \in 1 .. Len(log) : log[i].metric = metric
IsCheckpointEvent(e) == e.ev = "checkpoint"
CheckpointsWritten == SelectSeq(log, IsCheckpointEvent)
IsPrefix(s, t) == Len(s) <= Len(t) /\ \A i \in 1 .. Len(s) : s[i] = t[i]
ExpectedCheckpoints(w, d) ==
    [i \in 1 .. (w + d) |->
        IF i <= w
        THEN [ev |-> "checkpoint", metric |-> "wl2", n |-> i,
              ck |-> [metric |-> "wl2", digits |-> <<0, 0, i>>]]
        ELSE [ev |-> "checkpoint", metric |-> "dice", n |-> i - w,
              ck |-> [metric |-> "dice", digits |-> <<0, 0, i - w>>]]]
TrainedFor(w) == [i \in 1 .. w |-> "wl2"]

\* C1: with wl2_epochs <= 0 and dice_epochs <= 0 training() stops with an error
\* at its first statement: nothing is read, built, trained or written, and no
\* step follows.
C1_RejectedBeforeAnyWork ==
    (W <= 0 /\ D <= 0) =>
        /\ pc \in {"check", "error"}
        /\ log = <<>>
        /\ DOMAIN files = {Pretrained}
        /\ seed = [wl2 |-> UnsetCk, dice |-> UnsetCk]
        /\ weights = <<>>
        /\ (pc = "error" => ~ENABLED Next)
C1_Witness == pc = "error" /\ W = 0 /\ D = 0 /\ log = <<>>

\* C2: in a first run with wl2_epochs = W > 0, dice_epochs = D > 0 and no
\* caller checkpoint, the checkpoints written so far are always a prefix of
\* wl2 1..W followed by dice 1..D, all of them are written when the run is
\* done, and the Dice phase is handed wl2_<W>.h5 and starts its first epoch from
\* the weights saved in it (those reached after W WL2 epochs).
C2_CheckpointsInOrder ==
    (run = 1 /\ W > 0 /\ D > 0 /\ args.checkpoint = NoneCk) =>
        /\ IsPrefix(CheckpointsWritten, ExpectedCheckpoints(W, D))
        /\ pc = "done" => CheckpointsWritten = ExpectedCheckpoints(W, D)
        /\ seed.dice # UnsetCk =>
              /\ seed.dice = [metric |-> "wl2", digits |-> <<0, 0, W>>]
              /\ start.dice = TrainedFor(W)
              /\ files[seed.dice] = start.dice
C2_Witness ==
    /\ pc = "done" /\ run = 1 /\ W = 1 /\ D = 2 /\ args.checkpoint = NoneCk
    /\ Len(CheckpointsWritten) = 3

\* C3: the path_checkpoint of the Dice phase is wl2_<wl2_epochs, 3 digits>.h5
\* when wl2_epochs > 0, whatever the caller passed; otherwise it is the caller's
\* checkpoint, or None when there is none.
C3_DiceSeed ==
    seed.dice # UnsetCk =>
        IF W > 0
        THEN /\ seed.dice.metric = "wl2"
             /\ Len(seed.dice.digits) = 3
             /\ ParseInt(seed.dice.digits) = W
        ELSE seed.dice = args.checkpoint
C3_Witness ==
    /\ seed.dice # UnsetCk /\ W = 2 /\ args.checkpoint = Pretrained
    /\ seed.dice = [metric |-> "wl2", digits |-> <<0, 0, 2>>]

\* C4 as claimed: a phase with zero epochs is never started, the Dice phase
\* included (no loss model, no call of train_model, no checkpoint).
C4_ZeroEpochPhaseNeverStarted ==
    /\ (W = 0 /\ D > 0) => (~LogHasMetric("wl2") /\ seed.wl2 = UnsetCk)
    /\ (D = 0 /\ W > 0) => (~LogHasMetric("dice") /\ seed.dice = UnsetCk)

\* C4 amended: with wl2_epochs = 0 the WL2 phase is never started; with
\* dice_epochs = 0 the Dice loss model is still built and train_model is still
\* called for 'dice', with zero epochs, so that no Dice epoch runs and no Dice
\* checkpoint is written.
C4_ZeroEpochPhase ==
    /\ (W = 0 /\ D > 0) => (~LogHasMetric("wl2") /\ seed.wl2 = UnsetCk)
    /\ (D = 0 /\ W > 0) =>
          /\ ~LogHas("checkpoint", "dice")
          /\ \A f \in DOMAIN files : f.metric # "dice"
          /\ start.dice # Unset =>
                /\ LogHas("metrics_model", "dice")
                /\ \E i \in 1 .. Len(log) :
                      log[i].ev = "train_model" /\ log[i].metric = "dice" /\ log[i].n = 0
          /\ pc = "done" => start.dice # Unset
C4_Witness ==
    /\ pc = "done" /\ D = 0 /\ W > 0
    /\ LogHas("train_model", "dice") /\ ~LogHas("checkpoint", "dice")

\* C5 as claimed: after a restart with checkpoint = F, the last file the failed
\* phase wrote, that phase starts from F; when the failed phase is Dice no WL2
\* phase runs before it.
C5_RestartResumesFailedPhase ==
    (run > 1) =>
        /\ seed[failed.phase] # UnsetCk =>
              (seed[failed.phase] = failed.file /\ start[failed.phase] = failed.saved)
        /\ failed.phase = "dice" => seed.wl2 = UnsetCk

\* C5 amended: after such a restart the failed phase starts from F when it is
\* WL2, or when it is Dice and wl2_epochs <= 0.  When it is Dice and
\* wl2_epochs > 0, the WL2 phase runs again, itself started from F, and the Dice
\* phase is handed wl2_<wl2_epochs>.h5, not F.
C5_RestartSeeds ==
    (run > 1) =>
        /\ (failed.phase = "wl2" /\ seed.wl2 # UnsetCk) =>
              (seed.wl2 = failed.file /\ start.wl2 = failed.saved)
        /\ (failed.phase = "dice" /\ W <= 0) =>
              /\ seed.wl2 = UnsetCk
              /\ seed.dice # UnsetCk =>
                    (seed.dice = failed.file /\ start.dice = failed.saved)
        /\ (failed.phase = "dice" /\ W > 0) =>
              /\ seed.wl2 # UnsetCk =>
                    (seed.wl2 = failed.file /\ start.wl2 = failed.saved)
              /\ seed.dice # UnsetCk =>
                    (seed.dice = [metric |-> "wl2", digits |-> <<0, 0, W>>]
                     /\ seed.dice # failed.file)
C5_Witness ==
    /\ run = 2 /\ failed.phase = "dice" /\ W = 0
    /\ seed.dice = failed.file /\ start.dice = failed.saved /\ pc = "done"
\* ------------------------------------------------------------------ claims, SpecAug
Last(seq) == seq[Len(seq)]
Spatial(shape) == SubSeq(shape, 1, Len(shape) - 1)
StageSet(b, branch) == {graph[b].stages[branch][k] : k \in 1 .. Len(graph[b].stages[branch])}
Builds == {"A", "B"}
Branches == {"noisy", "target"}

\* C6: two graphs built from arguments that differ in the erosion ones only,
\* fed the same volumes with the same deformation and crop draws, give the
\* same target output.
C6_TargetIndependentOfErosion ==
    apc = "done" => Last(outs["A"].target) = Last(outs["B"].target)
C6_Witness ==
    /\ apc = "done"
    /\ cfg.ero[1] # cfg.ero[2]
    /\ Last(outs["A"].noisy) # Last(outs["B"].noisy)
    /\ Last(outs["A"].target) = Last(outs["B"].target)
    /\ cfg.deform_on /\ "crop" \in StageSet("A", "target")

\* C7: the remapping of the noisy input is a bijection from the distinct values
\* of the label list onto 0 .. n_labels - 1, n_labels being the width of the
\* one-hot output, and the one-hot vector of a remapped value has exactly one
\* nonzero entry, at that value.
C7_RemapIsBijectionOntoOneHotWidth ==
    apc # "build" =>
        LET g == graph["A"]
            width == Last(g.output_shape.noisy)
            U == {cfg.segmentation_labels[i] : i \in 1 .. Len(cfg.segmentation_labels)}
            f(v) == ConvertLabel(g.source_values, v)
        IN  /\ \A v, w \in U : f(v) = f(w) => v = w
            /\ {f(v) : v \in U} = 0 .. width - 1
            /\ \A v \in U :
                  LET oh == OneHotVector(f(v), g.n_labels)
                  IN  {k \in DOMAIN oh : oh[k] # 0} = {f(v)}

\* C9: whatever stages are built, the two outputs of a graph have the same
\* spatial shape, the resolved crop shape: as declared by the graph and as
\* produced on a batch.
C9_OutputsShareCropShape ==
    \A b \in Builds :
        /\ apc # "build" =>
              /\ Spatial(graph[b].output_shape.noisy) = graph[b].crop_shape
              /\ graph[b].output_shape.target = graph[b].crop_shape
        /\ apc = "done" =>
              /\ Last(outs[b].noisy).shape = graph[b].crop_shape
              /\ Last(outs[b].target).shape = graph[b].crop_shape
C9_Witness ==
    /\ apc = "done"
    /\ graph["B"].crop_shape # cfg.labels_shape
    /\ "erode" \in StageSet("B", "noisy") /\ "erode" \notin StageSet("A", "noisy")
    /\ Last(outs["B"].noisy).shape = Last(outs["B"].target).shape
    /\ Last(outs["B"].target).shape = <<2, 2>>

\* the tensor of a branch that enters its first layer after the cropping
EntersDegradation(b, branch) ==
    LET st == graph[b].stages[branch]
        k == CHOOSE k \in 1 .. Len(st) :
                /\ st[k] \in {"erode", "convert", "cast"}
                /\ \A j \in 1 .. k - 1 : st[j] \notin {"erode", "convert", "cast"}
    IN  outs[b][branch][k - 1]

\* C10: a crop layer is built exactly when the resolved crop shape differs from
\* the native shape; when they are equal the tensors leaving the deformation
\* enter the next layer as they are.
C10_CropOnlyWhenShapesDiffer ==
    \A b \in Builds : \A branch \in Branches :
        /\ apc # "build" =>
              ("crop" \in StageSet(b, branch) <=> graph[b].crop_shape # cfg.labels_shape)
        /\ (apc = "done" /\ graph[b].crop_shape = cfg.labels_shape) =>
              /\ EntersDegradation(b, branch) = outs[b][branch][1]
              /\ EntersDegradation(b, branch).shape = cfg.labels_shape
C10_Witness ==
    /\ apc = "done"
    /\ graph["A"].crop_shape = cfg.labels_shape
    /\ cfg.n_levels = 1 /\ cfg.output_shape # <<>>
    /\ "crop" \notin StageSet("A", "noisy") \cup StageSet("A", "target")
    /\ EntersDegradation("A", "noisy") = outs["A"].noisy[1]
====
